---------------------------- MODULE Spec2Model ----------------------------
(***************************************************************************)
(* A model of NativeConnection (src/src/NativeConnection.ts): the framing  *)
(* engine that turns the chunks of a child process's stdout into JSON      *)
(* messages for pending readers, and writes outbound messages to its stdin.*)
(*                                                                         *)
(* Buffers are sequences of bytes (0..255), strings are sequences of       *)
(* Unicode code points, JavaScript values are records built by JNum, JStr, *)
(* JArr and JObj.  Every action is one run-to-completion callback of the   *)
(* Node.js event loop.                                                     *)
(***************************************************************************)
EXTENDS Integers, Sequences, FiniteSets, TLC

(***************************************************************************)
(* Bounds of the model.                                                    *)
(***************************************************************************)
MaxFrames == 2      \* frames the child process writes to its stdout
MaxChunks == 3      \* stdout 'data' events
MaxReaders == 2     \* readMessage calls
MaxSends == 1       \* sendMessage calls
MaxDisconnects == 2 \* disconnect calls

(***************************************************************************)
(* JavaScript strings.  null and undefined are kept apart from strings so  *)
(* that `+=` on them does what JavaScript does.                            *)
(***************************************************************************)
Undefined == <<-1>>
Null == <<-2>>

\* a += b on a field holding a string, null or undefined
StrConcat(a, b) ==
    IF a = Null THEN <<110, 117, 108, 108>> \o b
    ELSE IF a = Undefined THEN <<117, 110, 100, 101, 102, 105, 110, 101, 100>> \o b
    ELSE a \o b

Min(a, b) == IF a <= b THEN a ELSE b
Max(a, b) == IF a >= b THEN a ELSE b

(***************************************************************************)
(* UTF-8 and UTF-16.                                                       *)
(***************************************************************************)
\* the UTF-8 bytes of one code point
Utf8Char(cp) ==
    IF cp < 128 THEN <<cp>>
    ELSE IF cp < 2048 THEN <<192 + (cp \div 64), 128 + (cp % 64)>>
    ELSE IF cp < 65536
        THEN <<224 + (cp \div 4096), 128 + ((cp \div 64) % 64), 128 + (cp % 64)>>
    ELSE <<240 + (cp \div 262144), 128 + ((cp \div 4096) % 64),
           128 + ((cp \div 64) % 64), 128 + (cp % 64)>>

\* the UTF-16 code units of one code point (String.prototype.length counts these)
Utf16Units(cp) == IF cp >= 65536 THEN 2 ELSE 1

RECURSIVE Utf8Encode(_)
Utf8Encode(s) == IF s = <<>> THEN <<>> ELSE Utf8Char(Head(s)) \o Utf8Encode(Tail(s))

RECURSIVE StrLength(_)
StrLength(s) == IF s = <<>> THEN 0 ELSE Utf16Units(Head(s)) + StrLength(Tail(s))

\* Buffer decoding as Node does it: a byte that starts no well-formed sequence
\* becomes U+FFFD.  One- and two-byte sequences are decoded.
RECURSIVE Utf8Decode(_)
Utf8Decode(b) ==
    IF b = <<>> THEN <<>>
    ELSE IF b[1] < 128 THEN <<b[1]>> \o Utf8Decode(Tail(b))
    ELSE IF b[1] \in 194..223 /\ Len(b) >= 2 /\ b[2] \in 128..191
        THEN <<(b[1] - 192) * 64 + (b[2] - 128)>> \o Utf8Decode(SubSeq(b, 3, Len(b)))
    ELSE <<65533>> \o Utf8Decode(Tail(b))

\* buffer.slice(start): the bytes from start on, empty when start is past the end
BufSlice(buffer, start) == SubSeq(buffer, Min(start, Len(buffer)) + 1, Len(buffer))

\* buffer.toString("utf-8", start, end): end is clamped to the buffer's length
BufToString(buffer, start, end) ==
    LET e == Min(end, Len(buffer))
    IN  IF e <= start THEN <<>> ELSE Utf8Decode(SubSeq(buffer, start + 1, e))

\* Buffer.alloc(size) then buffer.write(str, offset, "utf-8"): only whole
\* characters that fit are written, the rest of the buffer stays zero
RECURSIVE Utf8Fit(_, _)
Utf8Fit(s, room) ==
    IF s = <<>> \/ Len(Utf8Char(Head(s))) > room THEN <<>>
    ELSE Utf8Char(Head(s)) \o Utf8Fit(Tail(s), room - Len(Utf8Char(Head(s))))

Zeros(n) == [i \in 1..n |-> 0]

BufWrite(str, room) ==
    LET w == Utf8Fit(str, room) IN w \o Zeros(room - Len(w))

(***************************************************************************)
(* The 4-byte length header, in the byte order of the platform.            *)
(***************************************************************************)
Endianness == {"LE", "BE"}

\* readUint32(buffer, 0) on a buffer of at least 4 bytes
readUint32(buffer, order) ==
    IF order = "BE"
    THEN buffer[1] * 16777216 + buffer[2] * 65536 + buffer[3] * 256 + buffer[4]
    ELSE buffer[4] * 16777216 + buffer[3] * 65536 + buffer[2] * 256 + buffer[1]

\* the 4 bytes writeUint32(buffer, value, 0) stores
writeUint32(value, order) ==
    LET b0 == value % 256
        b1 == (value \div 256) % 256
        b2 == (value \div 65536) % 256
        b3 == (value \div 16777216) % 256
    IN  IF order = "BE" THEN <<b3, b2, b1, b0>> ELSE <<b0, b1, b2, b3>>

(***************************************************************************)
(* JavaScript values and JSON.  The texts of the model are written with    *)
(* digits, '-', '"', '[', ']', '{', '}', ':', ',', white space and plain   *)
(* string characters; on these JSONparse accepts what JSON.parse accepts.  *)
(***************************************************************************)
JNull == [tag |-> "null", num |-> 0, chars |-> <<>>, items |-> <<>>]
JNum(n) == [tag |-> "num", num |-> n, chars |-> <<>>, items |-> <<>>]
JStr(s) == [tag |-> "str", num |-> 0, chars |-> s, items |-> <<>>]
JArr(vs) == [tag |-> "arr", num |-> 0, chars |-> <<>>, items |-> vs]
\* an object: items holds key, value, key, value, ... (keys are JStr)
JObj(kvs) == [tag |-> "obj", num |-> 0, chars |-> <<>>, items |-> kvs]

ParseFail == [ok |-> FALSE, val |-> JNull, next |-> 0]
ParseOk(v, n) == [ok |-> TRUE, val |-> v, next |-> n]

IsWs(c) == c \in {9, 10, 13, 32}
IsDigit(c) == c \in 48..57

RECURSIVE SkipWs(_, _)
SkipWs(s, i) == IF i <= Len(s) /\ IsWs(s[i]) THEN SkipWs(s, i + 1) ELSE i

\* the index after the digits that start at i
RECURSIVE DigitsEnd(_, _)
DigitsEnd(s, i) == IF i <= Len(s) /\ IsDigit(s[i]) THEN DigitsEnd(s, i + 1) ELSE i

RECURSIVE DigitsVal(_, _, _)
DigitsVal(s, i, j) ==
    IF j <= i THEN 0 ELSE DigitsVal(s, i, j - 1) * 10 + (s[j - 1] - 48)

\* an integer -? (0 | [1-9][0-9]*) whose digits run from d to e - 1
NumberAt(s, neg, d, e) ==
    IF e = d \/ (s[d] = 48 /\ e > d + 1) THEN ParseFail
    ELSE ParseOk(JNum(IF neg THEN 0 - DigitsVal(s, d, e) ELSE DigitsVal(s, d, e)), e)

ParseNumber(s, i) ==
    IF s[i] = 45 THEN NumberAt(s, TRUE, i + 1, DigitsEnd(s, i + 1))
    ELSE NumberAt(s, FALSE, i, DigitsEnd(s, i))

\* the index of the quote that closes a string whose characters start at i, or 0
RECURSIVE StringEnd(_, _)
StringEnd(s, i) ==
    IF i > Len(s) THEN 0
    ELSE IF s[i] = 34 THEN i
    ELSE IF s[i] < 32 \/ s[i] = 92 THEN 0
    ELSE StringEnd(s, i + 1)

\* the string that opens at i and closes at e
StringAt(s, i, e) ==
    IF e = 0 THEN ParseFail ELSE ParseOk(JStr(SubSeq(s, i + 1, e - 1)), e + 1)

ParseString(s, i) == StringAt(s, i, StringEnd(s, i + 1))

\* what follows in the text decides how the parse goes on: it is done with a
\* result, or it goes on with kind at index i with acc
Done(res) == [done |-> TRUE, res |-> res, kind |-> "", i |-> 0, acc |-> <<>>]
GoOn(kind, i, acc) == [done |-> FALSE, res |-> ParseFail, kind |-> kind, i |-> i, acc |-> acc]

\* after '[' or '{', with j the index of the next character that is no white space
AfterOpen(s, j, close, empty, kind) ==
    IF j <= Len(s) /\ s[j] = close THEN Done(ParseOk(empty, j + 1))
    ELSE GoOn(kind, j, <<>>)

\* after an element r of an array whose earlier elements are acc
AfterElement(s, acc, r) ==
    IF ~r.ok \/ SkipWs(s, r.next) > Len(s) THEN Done(ParseFail)
    ELSE IF s[SkipWs(s, r.next)] = 93
        THEN Done(ParseOk(JArr(Append(acc, r.val)), SkipWs(s, r.next) + 1))
    ELSE IF s[SkipWs(s, r.next)] = 44
        THEN GoOn("elements", SkipWs(s, SkipWs(s, r.next) + 1), Append(acc, r.val))
    ELSE Done(ParseFail)

\* after the key k of an object's member: the ':' and the index of the value
AfterKey(s, acc, k) ==
    IF k.ok /\ SkipWs(s, k.next) <= Len(s) /\ s[SkipWs(s, k.next)] = 58
    THEN GoOn("member", SkipWs(s, SkipWs(s, k.next) + 1), Append(acc, k.val))
    ELSE Done(ParseFail)

\* after the value r of an object's member; acc ends with the member's key
AfterMember(s, acc, r) ==
    IF ~r.ok \/ SkipWs(s, r.next) > Len(s) THEN Done(ParseFail)
    ELSE IF s[SkipWs(s, r.next)] = 125
        THEN Done(ParseOk(JObj(Append(acc, r.val)), SkipWs(s, r.next) + 1))
    ELSE IF s[SkipWs(s, r.next)] = 44
        THEN GoOn("members", SkipWs(s, SkipWs(s, r.next) + 1), Append(acc, r.val))
    ELSE Done(ParseFail)

RECURSIVE Parse(_, _, _, _)
\* kind "value": a value that starts at i (white space already skipped);
\* kind "elements": value (, value)* ] with the values read so far in acc;
\* kind "members": string : value (, string : value)* } with the members in acc;
\* kind "member": the value of a member whose key ends acc, and the rest;
\* kind "step": acc is what an After... operator decided
Parse(kind, s, i, acc) ==
    IF kind = "step" THEN
        IF acc.done THEN acc.res ELSE Parse(acc.kind, s, acc.i, acc.acc)
    ELSE IF kind = "elements" THEN
        Parse("step", s, 0, AfterElement(s, acc, Parse("value", s, i, <<>>)))
    ELSE IF kind = "members" THEN
        Parse("step", s, 0,
              AfterKey(s, acc, IF i <= Len(s) /\ s[i] = 34 THEN ParseString(s, i) ELSE ParseFail))
    ELSE IF kind = "member" THEN
        Parse("step", s, 0, AfterMember(s, acc, Parse("value", s, i, <<>>)))
    ELSE IF i > Len(s) THEN ParseFail
    ELSE IF s[i] = 34 THEN ParseString(s, i)
    ELSE IF s[i] = 45 \/ IsDigit(s[i]) THEN ParseNumber(s, i)
    ELSE IF s[i] = 91
        THEN Parse("step", s, 0, AfterOpen(s, SkipWs(s, i + 1), 93, JArr(<<>>), "elements"))
    ELSE IF s[i] = 123
        THEN Parse("step", s, 0, AfterOpen(s, SkipWs(s, i + 1), 125, JObj(<<>>), "members"))
    ELSE ParseFail

\* a parsed value r is the whole text when only white space follows it
WholeText(s, r) == IF r.ok /\ SkipWs(s, r.next) = Len(s) + 1 THEN r ELSE ParseFail

\* JSON.parse(text): ok is FALSE where JSON.parse throws a SyntaxError
JSONparse(s) == WholeText(s, Parse("value", s, SkipWs(s, 1), <<>>))

RECURSIVE DigitsOf(_)
DigitsOf(n) == IF n < 10 THEN <<48 + n>> ELSE Append(DigitsOf(n \div 10), 48 + (n % 10))

RECURSIVE Stringify(_, _)
\* the text of a value; of a sequence of values joined by ',' (sep 44), or of an
\* object's key, value, key, value, ... (sep 58)
Stringify(v, sep) ==
    IF sep = 0 THEN
        IF v.tag = "num"
            THEN (IF v.num < 0 THEN <<45>> \o DigitsOf(0 - v.num) ELSE DigitsOf(v.num))
        ELSE IF v.tag = "str" THEN <<34>> \o v.chars \o <<34>>
        ELSE IF v.tag = "arr" THEN <<91>> \o Stringify(v.items, 44) \o <<93>>
        ELSE IF v.tag = "obj" THEN <<123>> \o Stringify(v.items, 58) \o <<125>>
        ELSE <<110, 117, 108, 108>>
    ELSE IF v = <<>> THEN <<>>
    ELSE IF sep = 58
        THEN Stringify(v[1], 0) \o <<58>> \o Stringify(v[2], 0)
             \o (IF Len(v) > 2 THEN <<44>> ELSE <<>>)
             \o Stringify(SubSeq(v, 3, Len(v)), 58)
    ELSE Stringify(v[1], 0) \o (IF Len(v) > 1 THEN <<44>> ELSE <<>>)
         \o Stringify(Tail(v), 44)

\* JSON.stringify(value, null, 0)
JSONstringify(v) == Stringify(v, 0)

(***************************************************************************)
(* The state.                                                              *)
(***************************************************************************)
VARIABLES
    endian,                 \* os.endianness() of the platform
    connected,              \* _connected
    messageQueue,           \* _messageQueue: the chunks not yet consumed
    readQueue,              \* _readQueue: the callbacks of the pending readers
    incompleteMessage,      \* _incompleteMessage
    remainingMessageSize,   \* _remainingMessageSize
    readers,                \* the promise of every readMessage call, by call number
    timers,                 \* the readers whose setTimeout is armed
    uncaught,               \* the exception that escaped an event listener, if one did
    kills,                  \* how often _process.kill() was invoked
    disconnects,            \* how often disconnect() was called
    stdin,                  \* the writes handed to _process.stdin
    proc,                   \* the child process: running, exited, closed
    wire,                   \* bytes the child wrote to stdout, not yet delivered
    frames,                 \* the payloads of the frames the child wrote, in order
    chunks,                 \* the number of 'data' events so far
    aligned,                \* every chunk delivered so far was exactly one frame
    platform,               \* os.platform()
    files,                  \* what lstat and readFile find at <directory>/<name>.json
    created                 \* the outcome of NativeConnector.create, once called

vars == <<endian, connected, messageQueue, readQueue, incompleteMessage,
          remainingMessageSize, readers, timers, uncaught, kills, disconnects,
          stdin, proc, wire, frames, chunks, aligned, platform, files, created>>

\* the fields of the framing engine, and the rest
engineVars == <<messageQueue, readQueue, incompleteMessage, remainingMessageSize,
                readers, timers>>
pipeVars == <<wire, frames, chunks, aligned>>
lifeVars == <<connected, kills, disconnects, proc>>
connectorVars == <<platform, files, created>>

\* what the child process may write as a payload: "12" and the malformed "["
FramePayloads == {<<49, 50>>, <<91>>}

\* the values a caller passes to sendMessage: 12, [], "e-acute", {"a":1}
Messages == {JNum(12), JArr(<<>>), JStr(<<233>>), JObj(<<JStr(<<97>>), JNum(1)>>)}

\* the timeoutMs arguments of readMessage: none (0 is falsy too) or 50 ms
Timeouts == {0, 50}

\* the entries of _readQueue: resolve itself, or the arrow function that clears
\* the timer and then calls resolve
ResolveFn(r) == [fn |-> "resolve", r |-> r]
WrapperFn(r) == [fn |-> "wrapper", r |-> r]

\* the promise of a readMessage call; handed, fired, late, early and open record
\* what happened to the call: how often its callback was called with a message,
\* that its timeout fired, that its callback was called after that, and that it
\* was made before any data arrived and while the connection was open
NewReader(timed, early, open) ==
    [timed |-> timed, st |-> "pending", val |-> JNull, why |-> "",
     handed |-> 0, fired |-> FALSE, late |-> FALSE, early |-> early, open |-> open]

\* resolve(x) / reject(why) of reader r's promise: a settled promise stays as it is
Resolve(rd, r, x) ==
    IF rd[r].st = "pending" THEN [rd EXCEPT ![r].st = "resolved", ![r].val = x] ELSE rd

Reject(rd, r, why) ==
    IF rd[r].st = "pending" THEN [rd EXCEPT ![r].st = "rejected", ![r].why = why] ELSE rd

(***************************************************************************)
(* The engine's fields while a callback runs; err names the exception that *)
(* ended the callback, if any.                                             *)
(***************************************************************************)
Engine ==
    [mq |-> messageQueue, rq |-> readQueue, inc |-> incompleteMessage,
     rem |-> remainingMessageSize, rd |-> readers, tm |-> timers, err |-> "none"]

\* the call of a _readQueue entry with a parsed message
Invoke(e, cb, x) ==
    LET r == cb.r
        rd1 == [e.rd EXCEPT ![r].handed = @ + 1, ![r].late = @ \/ e.rd[r].fired]
    IN  [e EXCEPT !.tm = IF cb.fn = "wrapper" THEN @ \ {r} ELSE @,
                  !.rd = Resolve(rd1, r, x)]

\* dispatchMessage(data) once JSON.parse(data) has returned or thrown: the
\* callback was shifted before
Dispatch(e, parsed) ==
    IF ~parsed.ok THEN [e EXCEPT !.rq = IF @ = <<>> THEN <<>> ELSE Tail(@),
                                 !.err = "SyntaxError"]
    ELSE IF e.rq = <<>> THEN [e EXCEPT !.err = "TypeError"]
    ELSE Invoke([e EXCEPT !.rq = Tail(@)], Head(e.rq), parsed.val)

\* dispatchMessage(data): shift a callback, parse, call
dispatchMessage(e, data) == Dispatch(e, JSONparse(data))

\* the statements after a dispatchMessage call, which an exception skips: the
\* head chunk is replaced by what is left of it, or shifted
AfterDispatch(d, left, reset) ==
    IF d.err # "none" THEN d
    ELSE [d EXCEPT !.mq = IF left # <<>> THEN <<left[1]>> \o Tail(@) ELSE Tail(@),
                   !.rem = IF reset THEN 0 ELSE @,
                   !.inc = IF reset THEN Null ELSE @]

\* the branch that finishes an incomplete message with the head chunk
FinishMessage(e, buffer, msg) ==
    AfterDispatch(dispatchMessage([e EXCEPT !.inc = msg], msg),
                  IF Len(buffer) > e.rem THEN <<BufSlice(buffer, e.rem)>> ELSE <<>>,
                  TRUE)

\* the branch that reads the length header of the head chunk
StartMessage(e, buffer, messageLen) ==
    IF messageLen + 4 >= Len(buffer) THEN
        AfterDispatch(dispatchMessage(e, BufToString(buffer, 4, 4 + messageLen)),
                      IF messageLen + 4 > Len(buffer)
                      THEN <<BufSlice(buffer, messageLen + 4)>> ELSE <<>>,
                      FALSE)
    ELSE [e EXCEPT !.inc = BufToString(buffer, 4, Len(buffer)),
                   !.rem = messageLen - (Len(buffer) - 4),
                   !.mq = Tail(@)]

\* one pass of the while loop's body over the head chunk
LoopBody(e, buffer) ==
    IF e.rem > 0 THEN
        IF Len(buffer) >= e.rem
        THEN FinishMessage(e, buffer, StrConcat(e.inc, BufToString(buffer, 0, e.rem)))
        ELSE [e EXCEPT !.inc = StrConcat(@, BufToString(buffer, 0, Len(buffer))),
                       !.rem = @ - Len(buffer),
                       !.mq = Tail(@)]
    ELSE IF Len(buffer) < 4 THEN [e EXCEPT !.err = "RangeError"]
    ELSE StartMessage(e, buffer, readUint32(buffer, endian))

RECURSIVE Loop(_)
Loop(e) ==
    IF Len(e.mq) > 0 /\ Len(e.rq) > 0 /\ e.err = "none" THEN Loop(LoopBody(e, Head(e.mq))) ELSE e

processMessageQueue(e) ==
    IF Len(e.rq) = 0 THEN e
    ELSE IF Len(e.mq) = 0 THEN e
    ELSE Loop(e)

\* the engine's fields as a callback leaves them
Store(e) ==
    /\ messageQueue' = e.mq
    /\ readQueue' = e.rq
    /\ incompleteMessage' = e.inc
    /\ remainingMessageSize' = e.rem
    /\ readers' = e.rd
    /\ timers' = e.tm

(***************************************************************************)
(* NativeConnector: the search for the manifest and create.                *)
(***************************************************************************)
\* ManifestSearchLocation
SearchFirefox == 1
SearchChrome == 2
SearchChromium == 4
SearchVivaldi == 8
SearchAll == 63

\* search_location & flag, for a flag of one bit
BitAnd(search_location, flag) == ((search_location \div flag) % 2) * flag

\* the directories getManifestLocations names
MozillaLib == "/usr/lib/mozilla/native-messaging-hosts/"
MozillaHome == "$HOME/.mozilla/native-messaging-hosts/"
ChromeEtc == "/etc/opt/chrome/native-messaging-hosts"
ChromiumEtc == "/etc/chromium/native-messaging-hosts"
VivaldiHome == "$HOME/.config/vivaldi/NativeMessagingHosts"
Directories == {MozillaLib, MozillaHome, ChromeEtc, ChromiumEtc, VivaldiHome}

Platforms == {"linux", "win32"}

\* the search_location arguments of create
SearchLocations ==
    {SearchFirefox, SearchChrome, SearchChromium, SearchVivaldi,
     SearchFirefox + SearchChrome, SearchAll}

\* what may be at <directory>/<name>.json: nothing, something that is not a
\* regular file, or a file whose text is {"a":1} or the malformed [
Absent == [kind |-> "absent", content |-> <<>>]
NotAFile == [kind |-> "directory", content |-> <<>>]
File(content) == [kind |-> "file", content |-> content]
ManifestTexts == {<<123, 34, 97, 34, 58, 49, 125>>, <<91>>}
Entries == {Absent, NotAFile} \cup {File(content) : content \in ManifestTexts}

\* the [directory, NativeAppType] pairs the generator yields, in order
getManifestLocations(search_location) ==
    IF platform = "linux" THEN
        (IF BitAnd(search_location, SearchFirefox) # 0
         THEN <<<<MozillaLib, "Firefox">>, <<MozillaHome, "Firefox">>>> ELSE <<>>)
        \o (IF BitAnd(search_location, SearchChrome) # 0
            THEN <<<<ChromeEtc, "Chrome">>>> ELSE <<>>)
        \o (IF BitAnd(search_location, SearchChromium) # 0
            THEN <<<<ChromiumEtc, "Chromium">>>> ELSE <<>>)
        \o (IF BitAnd(search_location, SearchVivaldi) # 0
            THEN <<<<VivaldiHome, "Vivaldi">>>> ELSE <<>>)
    ELSE <<>>

RECURSIVE FindIn(_)
\* the loop of findManifest over the locations left: lstat throws on a path that
\* does not exist and the catch goes on, as does an entry that is not a file
FindIn(locations) ==
    IF locations = <<>> THEN Null
    ELSE IF files[Head(locations)[1]].kind = "file" THEN Head(locations)
    ELSE FindIn(Tail(locations))

findManifest(search_location) == FindIn(getManifestLocations(search_location))

NotCreated ==
    [st |-> "none", search |-> 0, error |-> "", path |-> "", app_type |-> "",
     manifest |-> JNull]

Rejected(search_location, error) ==
    [NotCreated EXCEPT !.st = "rejected", !.search = search_location, !.error = error]

\* create once the manifest's text is read: parsed, or the parse error rethrown
FromContent(search_location, found, parsed) ==
    IF parsed.ok
    THEN [st |-> "fulfilled", search |-> search_location, error |-> "",
          path |-> found[1], app_type |-> found[2], manifest |-> parsed.val]
    ELSE Rejected(search_location, "Manifest content was no valid JSON: ")

\* create once findManifest has returned: destructuring null throws TypeError
\* before the comparison of manifest_path with null is reached, and the path of
\* a pair that was found is one of the directories' paths, never null
FromFound(search_location, found) ==
    IF found = Null THEN Rejected(search_location, "TypeError")
    ELSE IF found[1] \notin Directories
         THEN Rejected(search_location, "Manifest could not be found!")
    ELSE FromContent(search_location, found, JSONparse(files[found[1]].content))

\* NativeConnector.create(manifest_name, search_location)
create(search_location) ==
    /\ created.st = "none"
    /\ created' = FromFound(search_location, findManifest(search_location))
    /\ UNCHANGED <<endian, connected, engineVars, pipeVars, uncaught, kills,
                   disconnects, stdin, proc, platform, files>>

(***************************************************************************)
(* Construction.                                                           *)
(***************************************************************************)
Init ==
    /\ endian \in Endianness
    /\ connected = TRUE
    /\ messageQueue = <<>>
    /\ readQueue = <<>>
    /\ incompleteMessage = Undefined
    /\ remainingMessageSize = 0
    /\ readers = <<>>
    /\ timers = {}
    /\ uncaught = "none"
    /\ kills = 0
    /\ disconnects = 0
    /\ stdin = <<>>
    /\ proc = "running"
    /\ wire = <<>>
    /\ frames = <<>>
    /\ chunks = 0
    /\ aligned = TRUE
    /\ platform = "linux"
    /\ files = [d \in Directories |-> Absent]
    /\ created = NotCreated

\* An exception that escapes an event listener is uncaught: Node ends the host
\* process, so nothing runs after it.
Alive == uncaught = "none"

(***************************************************************************)
(* The child process and its stdout pipe.                                  *)
(***************************************************************************)
\* the bytes of one frame as a correct peer writes it
FrameBytes(payload) == writeUint32(Len(payload), endian) \o payload

RECURSIVE FramesSize(_, _)
\* the number of bytes of the first n frames
FramesSize(fs, n) == IF n = 0 THEN 0 ELSE FramesSize(fs, n - 1) + 4 + Len(fs[n])

\* the number of bytes delivered by data events so far
Delivered == FramesSize(frames, Len(frames)) - Len(wire)

\* the next k bytes on the pipe are exactly one whole frame
OneFrame(k) ==
    \E n \in 1..Len(frames) :
        /\ FramesSize(frames, n - 1) = Delivered
        /\ FramesSize(frames, n) = Delivered + k

\* the child writes one more frame to its stdout
ProcWrite(payload) ==
    /\ Alive
    /\ proc = "running"
    /\ Len(frames) < MaxFrames
    /\ frames' = Append(frames, payload)
    /\ wire' = wire \o FrameBytes(payload)
    /\ UNCHANGED <<endian, connectorVars, engineVars, lifeVars, uncaught, stdin, chunks, aligned>>

(***************************************************************************)
(* The listeners the constructor registers.                                *)
(***************************************************************************)
\* _messageQueue.push(chunk)
PushChunkFront(queue, chunk) == <<chunk>> \o queue

PushChunk(queue, chunk) == Append(queue, chunk)

\* what a listener leaves: an exception it throws is uncaught
StoreListener(e) == Store(e) /\ uncaught' = e.err

\* stdout 'data': the next k bytes of the pipe arrive as one chunk
OnData(k) ==
    /\ Alive
    /\ proc # "closed"
    /\ chunks < MaxChunks
    /\ k \in 1..Len(wire)
    /\ StoreListener(processMessageQueue(
            [Engine EXCEPT !.mq = PushChunk(@, SubSeq(wire, 1, k))]))
    /\ wire' = SubSeq(wire, k + 1, Len(wire))
    /\ chunks' = chunks + 1
    /\ aligned' = (aligned /\ OneFrame(k))
    /\ UNCHANGED <<endian, connectorVars, lifeVars, stdin, frames>>

\* process 'error'
OnError ==
    /\ Alive
    /\ proc # "closed"
    /\ connected' = FALSE
    /\ UNCHANGED <<endian, connectorVars, engineVars, pipeVars, uncaught, kills, disconnects,
                   stdin, proc>>

\* process 'exit'
OnExit ==
    /\ Alive
    /\ proc = "running"
    /\ proc' = "exited"
    /\ connected' = FALSE
    /\ UNCHANGED <<endian, connectorVars, engineVars, pipeVars, uncaught, kills, disconnects, stdin>>

\* a 'close' listener that sets _connected back to true
OnCloseReopens ==
    /\ Alive
    /\ proc = "exited"
    /\ wire = <<>>
    /\ proc' = "closed"
    /\ connected' = TRUE
    /\ UNCHANGED <<endian, connectorVars, engineVars, pipeVars, uncaught, kills, disconnects, stdin>>

\* process 'close': the process has ended and its stdio streams are closed
OnClose ==
    /\ Alive
    /\ proc = "exited"
    /\ wire = <<>>
    /\ proc' = "closed"
    /\ connected' = FALSE
    /\ UNCHANGED <<endian, connectorVars, engineVars, pipeVars, uncaught, kills, disconnects, stdin>>

(***************************************************************************)
(* readMessage and its timeout.                                            *)
(***************************************************************************)
\* the new promise of call r, its timer if it has one, and its _readQueue entry
Register(e, r, timed) ==
    [e EXCEPT !.rd = Append(@, NewReader(timed, Delivered = 0, connected)),
              !.tm = IF timed THEN @ \cup {r} ELSE @,
              !.rq = Append(@, IF timed THEN WrapperFn(r) ELSE ResolveFn(r))]

\* what the executor of call r leaves: an exception it throws rejects the promise
StoreExecutor(r, e) ==
    Store(IF e.err # "none" THEN [e EXCEPT !.rd = Reject(@, r, e.err)] ELSE e)

\* readMessage(timeoutMs): the promise executor, run synchronously
ReadMessage(timeoutMs) ==
    /\ Alive
    /\ Len(readers) < MaxReaders
    /\ StoreExecutor(Len(readers) + 1, processMessageQueue(
            Register(Engine, Len(readers) + 1, timeoutMs # 0)))
    /\ UNCHANGED <<endian, connectorVars, lifeVars, pipeVars, uncaught, stdin>>

\* readQueue.indexOf(f), 1-based; 0 when f is not in the queue
IndexOf(queue, f) ==
    IF \E i \in 1..Len(queue) : queue[i] = f
    THEN CHOOSE i \in 1..Len(queue) :
            queue[i] = f /\ \A j \in 1..(i - 1) : queue[j] # f
    ELSE 0

\* readQueue.splice(index, 1)
Splice(queue, i) == SubSeq(queue, 1, i - 1) \o SubSeq(queue, i + 1, Len(queue))

\* the setTimeout callback of reader r
Timeout(r) ==
    /\ Alive
    /\ r \in timers
    /\ timers' = timers \ {r}
    /\ LET index == IndexOf(readQueue, ResolveFn(r))
       IN  readQueue' = IF index >= 1 THEN Splice(readQueue, index) ELSE readQueue
    /\ readers' = Reject([readers EXCEPT ![r].fired = TRUE], r, "Timeout reached")
    /\ UNCHANGED <<endian, connectorVars, messageQueue, incompleteMessage, remainingMessageSize,
                   lifeVars, pipeVars, uncaught, stdin>>

(***************************************************************************)
(* sendMessage and disconnect.                                             *)
(***************************************************************************)
\* the buffer sendMessage builds for a message
SendBuffer(message) ==
    LET jsonContent == JSONstringify(message)
        messageLen == StrLength(jsonContent)
    IN  writeUint32(messageLen, endian) \o BufWrite(jsonContent, messageLen)

\* sendMessage(message): the buffer is handed to stdin.write whatever the state of
\* the connection; the write resolves while the child is running, and on the
\* stream of a process that has ended the outcome is the stream's
SendMessage(message) ==
    /\ Alive
    /\ Len(stdin) < MaxSends
    /\ \E res \in {"resolved", "rejected"} :
        /\ proc = "running" => res = "resolved"
        /\ stdin' = Append(stdin, [msg |-> message, buf |-> SendBuffer(message),
                                   open |-> connected, res |-> res])
    /\ UNCHANGED <<endian, connectorVars, engineVars, lifeVars, pipeVars, uncaught>>

\* disconnect() without the assignment to _connected
DisconnectNoFlag ==
    /\ Alive
    /\ disconnects < MaxDisconnects
    /\ disconnects' = disconnects + 1
    /\ IF connected
       THEN kills' = kills + 1 /\ connected' = connected
       ELSE UNCHANGED <<kills, connected>>
    /\ UNCHANGED <<endian, connectorVars, engineVars, pipeVars, uncaught, stdin, proc>>

Disconnect ==
    /\ Alive
    /\ disconnects < MaxDisconnects
    /\ disconnects' = disconnects + 1
    /\ IF connected
       THEN kills' = kills + 1 /\ connected' = FALSE
       ELSE UNCHANGED <<kills, connected>>
    /\ UNCHANGED <<endian, connectorVars, engineVars, pipeVars, uncaught, stdin, proc>>

(***************************************************************************)
(* Two specifications.  The framing engine never reads _connected, and the *)
(* lifecycle never touches the buffers, so each is explored on its own:    *)
(* Spec is the framing engine fed by the child's stdout, LifeSpec is the   *)
(* connection's lifecycle with readers, sends and disconnects.             *)
(***************************************************************************)
Next ==
    \/ \E payload \in FramePayloads : ProcWrite(payload)
    \/ \E k \in 1..Len(wire) : OnData(k)
    \/ \E timeoutMs \in Timeouts : ReadMessage(timeoutMs)
    \/ \E r \in timers : Timeout(r)

Spec == Init /\ [][Next]_vars

LifeNext ==
    \/ OnError
    \/ OnExit
    \/ OnClose
    \/ \E timeoutMs \in Timeouts : ReadMessage(timeoutMs)
    \/ \E r \in timers : Timeout(r)
    \/ \E message \in Messages : SendMessage(message)
    \/ Disconnect

LifeSpec == Init /\ [][LifeNext]_vars

(***************************************************************************)
(* What the claims speak of.                                               *)
(***************************************************************************)
\* the payload of a frame is JSON text
WellFormed(payload) == JSONparse(Utf8Decode(payload)).ok

\* the value a frame carries
FrameValue(payload) == JSONparse(Utf8Decode(payload)).val

AllWellFormed == \A n \in 1..Len(frames) : WellFormed(frames[n])
NoneTimed == \A r \in 1..Len(readers) : ~readers[r].timed

\* reader r holds the value of the r-th frame
Holds(r) == readers[r].st = "resolved" /\ readers[r].val = FrameValue(frames[r])

\* the number of whole frames among the bytes delivered so far
RECURSIVE WholeFrames(_)
WholeFrames(n) ==
    IF n < Len(frames) /\ FramesSize(frames, n + 1) <= Delivered
    THEN WholeFrames(n + 1) ELSE n

RECURSIVE Flatten(_)
Flatten(queue) == IF queue = <<>> THEN <<>> ELSE Head(queue) \o Flatten(Tail(queue))

RECURSIVE Stream(_)
\* the bytes of the frames fs, back to back
Stream(fs) == IF fs = <<>> THEN <<>> ELSE FrameBytes(Head(fs)) \o Stream(Tail(fs))

(***************************************************************************)
(* C1.  However the stream of well-formed frames is cut into chunks, the   *)
(* readers receive the frames' payloads, in order: no exception escapes,   *)
(* a settled reader holds the value of its frame, and once every byte has  *)
(* been delivered every reader that has a frame holds it.                  *)
(***************************************************************************)
C1_AnyChunking ==
    (AllWellFormed /\ NoneTimed) =>
        /\ uncaught = "none"
        /\ \A r \in 1..Len(readers) :
            /\ readers[r].st # "pending" => (r <= Len(frames) /\ Holds(r))
            /\ (wire = <<>> /\ r <= Len(frames)) => Holds(r)

(***************************************************************************)
(* C2.  Readers registered before any data arrived, none with a timeout:   *)
(* once the frames have arrived, the N-th reader holds the N-th frame.     *)
(***************************************************************************)
C2_ReadersFifo ==
    ( /\ AllWellFormed
      /\ NoneTimed
      /\ Len(readers) >= 2
      /\ \A r \in 1..Len(readers) : readers[r].early
      /\ wire = <<>> ) =>
        \A N \in 1..Min(Len(readers), Len(frames)) : Holds(N)

(***************************************************************************)
(* C3.  A reader whose timeout has fired is no longer in the reader queue, *)
(* and no reader both had its timeout fire and was handed a frame.         *)
(***************************************************************************)
C3_TimeoutDeregisters ==
    \A r \in 1..Len(readers) :
        /\ readers[r].fired => \A i \in 1..Len(readQueue) : readQueue[i].r # r
        /\ ~(readers[r].fired /\ readers[r].handed > 0)

(***************************************************************************)
(* C4.  No frame is handed to a reader after that reader's timeout fired   *)
(* (stated for chunks that are whole frames, where framing is not at       *)
(* issue).                                                                 *)
(***************************************************************************)
C4_NoFrameAfterTimeout ==
    aligned => \A r \in 1..Len(readers) : ~readers[r].late

(***************************************************************************)
(* C5.  Once the connection is Closed, no reader registered while it was   *)
(* Open is still pending: the readers pending at the close were failed.    *)
(***************************************************************************)
C5_CloseFailsReaders ==
    ~connected =>
        \A r \in 1..Len(readers) : readers[r].open => readers[r].st # "pending"

(***************************************************************************)
(* C6.  Nothing is handed to the process's stdin by a sendMessage call     *)
(* made while the connection is Closed.                                    *)
(***************************************************************************)
C6_NoSendWhenClosed ==
    \A i \in 1..Len(stdin) : stdin[i].open

(***************************************************************************)
(* C7.  kill() is invoked at most once, never while the connection is      *)
(* Closed, and a disconnect() call on a Closed connection changes nothing  *)
(* (but the count of the calls).                                           *)
(***************************************************************************)
C7_KillOnce ==
    [][ /\ kills' <= 1
        /\ ~connected => kills' = kills
        /\ (disconnects' # disconnects /\ ~connected) =>
                UNCHANGED <<endian, connectorVars, connected, engineVars, pipeVars, uncaught,
                            kills, stdin, proc>> ]_vars

\* disconnect() was called twice and the process was killed once
C7_Witness == disconnects >= 2 /\ kills = 1

(***************************************************************************)
(* C8.  A data event that finds no reader pending appends its chunk to the *)
(* tail of the buffer and changes nothing else of the engine; while no     *)
(* reader was ever registered, the buffer holds every byte delivered.      *)
(***************************************************************************)
C8_NoDrop ==
    /\ [][ (readQueue = <<>> /\ Len(wire') < Len(wire)) =>
            /\ messageQueue' =
                   Append(messageQueue, SubSeq(wire, 1, Len(wire) - Len(wire')))
            /\ UNCHANGED <<readQueue, incompleteMessage, remainingMessageSize,
                           readers, timers, uncaught>> ]_vars
    /\ [](Len(readers) = 0 =>
            Flatten(messageQueue) = SubSeq(Stream(frames), 1, Delivered))

\* three chunks are buffered and no reader is or was pending
C8_Witness == Len(messageQueue) >= 3 /\ chunks >= 3 /\ Len(readers) = 0

(***************************************************************************)
(* C9.  With every chunk a whole frame: a malformed frame fails the reader *)
(* it would have gone to, every other reader holds its frame, no exception *)
(* escapes, and the buffer holds exactly the frames no reader has taken.   *)
(***************************************************************************)
C9_MalformedFrame ==
    (aligned /\ NoneTimed) =>
        /\ uncaught = "none"
        /\ \A r \in 1..Min(Len(readers), WholeFrames(0)) :
            IF WellFormed(frames[r]) THEN Holds(r) ELSE readers[r].st = "rejected"
        /\ remainingMessageSize = 0
        /\ messageQueue =
            [i \in 1..Max(0, WholeFrames(0) - Len(readers)) |->
                FrameBytes(frames[Len(readers) + i])]

(***************************************************************************)
(* C10.  The length header of every buffer sendMessage writes is the       *)
(* number of UTF-8 bytes of the message's JSON text.                       *)
(***************************************************************************)
C10_HeaderIsByteLength ==
    \A i \in 1..Len(stdin) :
        readUint32(stdin[i].buf, endian) = Len(Utf8Encode(JSONstringify(stdin[i].msg)))

(***************************************************************************)
(* A connection constructed on a child that has already written one frame  *)
(* with the 7-byte payload {"a":1}: the 11 bytes are on the pipe and reach *)
(* the data listener in chunks of any sizes.                               *)
(***************************************************************************)
\* the JSON text {"a":1}
ObjectPayload == <<123, 34, 97, 34, 58, 49, 125>>

HeaderInit ==
    /\ endian \in Endianness
    /\ connected = TRUE
    /\ messageQueue = <<>>
    /\ readQueue = <<>>
    /\ incompleteMessage = Undefined
    /\ remainingMessageSize = 0
    /\ readers = <<>>
    /\ timers = {}
    /\ uncaught = "none"
    /\ kills = 0
    /\ disconnects = 0
    /\ stdin = <<>>
    /\ proc = "running"
    /\ wire = FrameBytes(ObjectPayload)
    /\ frames = <<ObjectPayload>>
    /\ chunks = 0
    /\ aligned = TRUE
    /\ platform = "linux"
    /\ files = [d \in Directories |-> Absent]
    /\ created = NotCreated

HeaderNext ==
    \/ \E k \in 1..Len(wire) : OnData(k)
    \/ \E timeoutMs \in Timeouts : ReadMessage(timeoutMs)
    \/ \E r \in timers : Timeout(r)

HeaderSpec == HeaderInit /\ [][HeaderNext]_vars

\* a header was read from a chunk of fewer than 4 bytes
ShortHeaderRead ==
    \/ uncaught = "RangeError"
    \/ \E r \in 1..Len(readers) : readers[r].why = "RangeError"

(***************************************************************************)
(* C11.  No header is ever read from a head chunk of fewer than 4 bytes,   *)
(* and once the 11 bytes of the frame {"a":1} have arrived, in whatever    *)
(* chunks (2 and 9 bytes among them), the first reader holds its payload.  *)
(***************************************************************************)
C11_HeaderSplit ==
    /\ ~ShortHeaderRead
    /\ (wire = <<>> /\ Len(readers) >= 1 /\ ~readers[1].timed) => Holds(1)

(***************************************************************************)
(* C12.  A readMessage call made while no reader is or was pending and a   *)
(* complete, well-formed frame has been buffered is handed the oldest      *)
(* buffered frame within the call.                                         *)
(***************************************************************************)
C12_BufferedFrameAtOnce ==
    [][ ( /\ Len(readers) = 0
          /\ Len(readers') = 1
          /\ WholeFrames(0) >= 1
          /\ WellFormed(frames[1]) ) =>
            /\ readers'[1].st = "resolved"
            /\ readers'[1].val = FrameValue(frames[1]) ]_vars

(***************************************************************************)
(* C13.  The connection is Open at construction; a process exit or close   *)
(* and a disconnect() call leave it Closed; and a Closed connection never  *)
(* becomes Open again.                                                     *)
(***************************************************************************)
C13_ClosedForGood ==
    /\ connected = TRUE
    /\ [][ /\ ~connected => ~connected'
           /\ proc' # proc => ~connected'
           /\ disconnects' # disconnects => ~connected' ]_vars

\* the process has exited and closed, and disconnect() was called on the Closed
\* connection without a kill
C13_Witness == ~connected /\ proc = "closed" /\ disconnects >= 1 /\ kills = 0

(***************************************************************************)
(* NativeConnector.create on any platform and any content of the search    *)
(* directories, before a connection exists (the connection's fields are    *)
(* held at their constructed values).                                      *)
(***************************************************************************)
ConnectorInit ==
    /\ endian \in Endianness
    /\ connected = TRUE
    /\ messageQueue = <<>>
    /\ readQueue = <<>>
    /\ incompleteMessage = Undefined
    /\ remainingMessageSize = 0
    /\ readers = <<>>
    /\ timers = {}
    /\ uncaught = "none"
    /\ kills = 0
    /\ disconnects = 0
    /\ stdin = <<>>
    /\ proc = "running"
    /\ wire = <<>>
    /\ frames = <<>>
    /\ chunks = 0
    /\ aligned = TRUE
    /\ platform \in Platforms
    /\ files \in [Directories -> Entries]
    /\ created = NotCreated

ConnectorNext == \E search_location \in SearchLocations : create(search_location)

ConnectorSpec == ConnectorInit /\ [][ConnectorNext]_vars

\* a search location that is enabled on this platform holds a regular file
ManifestInScope(search_location) ==
    \E i \in 1..Len(getManifestLocations(search_location)) :
        files[getManifestLocations(search_location)[i][1]].kind = "file"

(***************************************************************************)
(* C14.  When no enabled search location holds a regular file              *)
(* <appName>.json, create fails with "Manifest could not be found!".       *)
(***************************************************************************)
C14_NotFound ==
    (created.st # "none" /\ ~ManifestInScope(created.search)) =>
        (created.st = "rejected" /\ created.error = "Manifest could not be found!")

(***************************************************************************)
(* A data event seen from outside: the chunk it delivers, and the case of  *)
(* C15 and C16, where that chunk becomes the head chunk with no partial    *)
(* frame in progress, a reader pending and the 4 header bytes present.     *)
(***************************************************************************)
DataStep == Len(wire') < Len(wire)

Chunk == SubSeq(wire, 1, Len(wire) - Len(wire'))

FreshHead ==
    /\ DataStep
    /\ readQueue # <<>>
    /\ messageQueue = <<>>
    /\ remainingMessageSize = 0
    /\ Len(Chunk) >= 4

\* the length the chunk's header gives, and the payload bytes that follow it
HeaderLen == readUint32(Chunk, endian)
PayloadOf(chunk, messageLen) == SubSeq(chunk, 5, Min(Len(chunk), 4 + messageLen))

(***************************************************************************)
(* C15.  When the head chunk holds a header and the whole of its (well-    *)
(* formed) payload and one reader is pending, the frame is handed to that  *)
(* reader in the step and the bytes after the payload, if any, are kept as *)
(* the new head chunk.                                                     *)
(***************************************************************************)
C15_WholeFrameInChunk ==
    [][ ( /\ FreshHead
          /\ Len(readQueue) = 1
          /\ Len(Chunk) >= 4 + HeaderLen
          /\ WellFormed(PayloadOf(Chunk, HeaderLen)) ) =>
            /\ readers'[readQueue[1].r].handed = readers[readQueue[1].r].handed + 1
            /\ readQueue' = <<>>
            /\ messageQueue' = IF Len(Chunk) > 4 + HeaderLen
                               THEN <<SubSeq(Chunk, 5 + HeaderLen, Len(Chunk))>>
                               ELSE <<>> ]_vars

(***************************************************************************)
(* C16.  When the head chunk holds a header and fewer payload bytes than   *)
(* the header's length, nothing is dispatched in the step: the payload     *)
(* bytes present are accumulated, the remaining count is the length minus  *)
(* the bytes present, the chunk is dropped and the readers stay pending.   *)
(***************************************************************************)
C16_PartialFrameInChunk ==
    [][ (FreshHead /\ Len(Chunk) < 4 + HeaderLen) =>
            /\ readers' = readers
            /\ readQueue' = readQueue
            /\ uncaught' = "none"
            /\ incompleteMessage' = Utf8Decode(PayloadOf(Chunk, HeaderLen))
            /\ remainingMessageSize' = HeaderLen - (Len(Chunk) - 4)
            /\ messageQueue' = <<>> ]_vars

\* the number of bytes of the stream the engine has taken out of the buffer
Consumed == Delivered - Len(Flatten(messageQueue))

\* a header has been read whose payload has not yet been consumed in full: the
\* engine stands inside frame n, past its 4 header bytes
HeaderPending ==
    \E n \in 1..Len(frames) :
        /\ FramesSize(frames, n - 1) + 4 <= Consumed
        /\ Consumed < FramesSize(frames, n)

\* no text is accumulated
NoText == incompleteMessage \in {Undefined, Null, <<>>}

(***************************************************************************)
(* C17.  Between calls of processMessageQueue, a non-zero remaining count  *)
(* or an accumulated text means that a header was read whose payload has   *)
(* not fully arrived; and a step that hands a frame to a reader leaves the *)
(* remaining count 0 and no accumulated text.                              *)
(***************************************************************************)
C17_PartialStateBounded ==
    /\ []((remainingMessageSize # 0 \/ ~NoText) => HeaderPending)
    /\ [][ (\E r \in 1..Len(readers) : readers'[r].handed > readers[r].handed) =>
                (remainingMessageSize' = 0 /\ NoText') ]_vars

(***************************************************************************)
(* C18.  _remainingMessageSize is never negative.                          *)
(***************************************************************************)
C18_RemainingNonNegative == remainingMessageSize >= 0

(***************************************************************************)
(* C19.  _messageQueue never holds a chunk of zero bytes.                  *)
(***************************************************************************)
C19_NoEmptyChunk == \A i \in 1..Len(messageQueue) : Len(messageQueue[i]) > 0

(***************************************************************************)
(* C20.  Every call of processMessageQueue has left its loop with the      *)
(* chunk queue or the reader queue empty, and no frame was dispatched with *)
(* the reader queue empty (the call of the missing callback would throw    *)
(* TypeError).                                                             *)
(***************************************************************************)
C20_LoopEndsEmpty ==
    /\ messageQueue = <<>> \/ readQueue = <<>>
    /\ uncaught # "TypeError"
    /\ \A r \in 1..Len(readers) : readers[r].why # "TypeError"

=============================================================================
